---- MODULE Spec2Model ----
(***************************************************************************)
(* Model of src/dashboard3.py: the flight-listing pipeline                 *)
(*   data.csv -> df_raw -> (SQL cleaning) df_cleaned -> (sidebar filter)   *)
(*   df_filtered -> (one catalog query) df_viz.                            *)
(*                                                                         *)
(* Text is a sequence of one-character strings.  A nullable value is <<>>  *)
(* (SQL NULL / pandas NaN / None) or <<v>>.  A real number is a record     *)
(* [m, e] standing for m / 10^e, kept normalised (no trailing zero).       *)
(***************************************************************************)
EXTENDS Integers, Sequences, FiniteSets

VARIABLES csv, pc, df_raw, df_cleaned, filt, df_filtered, chart_option, df_viz, errline

vars == <<csv, pc, df_raw, df_cleaned, filt, df_filtered, chart_option, df_viz, errline>>

\* ------------------------------------------------------------------ bounds

MaxRows == 2

MaxDurLen == 5

MaxPriceLen == 4

ExtraOrigins == 2

\* ------------------------------------------------------- program constants

Limit == 15

HourSliderMin == 0

HourSliderMax == 23

MinutesPerHour == 60

RoundDigits == 2

\* ------------------------------------------------------------------- text

NULL == <<>>

Some(v) == <<v>>

IsNull(x) == x = <<>>

Val(x) == x[1]

\* The characters the model uses, in code-point order.
Ascii == <<" ", ",", "-", ".", "0", "1", "2", "3", "4", "5", "6", "7", "8", "9", ":",
           "a", "b", "c", "d", "e", "f", "g", "h", "i", "j", "k", "l", "m", "n", "o",
           "p", "q", "r", "s", "t", "u", "v", "w", "x", "y", "z", "→">>

Ord(c) == CHOOSE i \in 1..Len(Ascii) : Ascii[i] = c

Digits == <<"0", "1", "2", "3", "4", "5", "6", "7", "8", "9">>

IsDigit(c) == \E i \in 1..Len(Digits) : Digits[i] = c

DigitVal(c) == (CHOOSE i \in 1..Len(Digits) : Digits[i] = c) - 1

Letters == SubSeq(Ascii, Ord("a"), Ord("z"))

AllDigits(s) == \A i \in 1..Len(s) : IsDigit(s[i])

\* Binary (code-point) comparison of two texts, as Python's str < and
\* SQLite's BINARY collation order them.
RECURSIVE TextLess(_, _)
TextLess(s, t) ==
    IF t = <<>> THEN FALSE
    ELSE IF s = <<>> THEN TRUE
    ELSE IF s[1] # t[1] THEN Ord(s[1]) < Ord(t[1])
    ELSE TextLess(Tail(s), Tail(t))

Min(a, b) == IF a <= b THEN a ELSE b

Max(a, b) == IF a >= b THEN a ELSE b

\* ------------------------------------------------------------ real numbers

RECURSIVE Pow10(_)
Pow10(k) == IF k = 0 THEN 1 ELSE 10 * Pow10(k - 1)

RECURSIVE Normalise(_)
Normalise(r) ==
    IF r.e > 0 /\ r.m % 10 = 0 THEN Normalise([m |-> r.m \div 10, e |-> r.e - 1])
    ELSE r

FromInt(i) == [m |-> i, e |-> 0]

RLeq(a, b) == a.m * Pow10(b.e) <= b.m * Pow10(a.e)

\* Python int(float): truncation (the model's reals are non-negative).
Trunc(r) == r.m \div Pow10(r.e)

\* -------------------------------------------------------- SQLite functions

\* SUBSTR(X, Y, Z) for Y >= 1: Z characters from the Y-th; a negative Z with
\* Y = 1 gives the empty text.
Substr(s, y, z) ==
    IF z <= 0 THEN <<>> ELSE SubSeq(s, y, Min(Len(s), y + z - 1))

\* INSTR(X, c): the 1-based position of the first c in X, 0 when absent.
Instr(s, c) ==
    IF \E i \in 1..Len(s) : s[i] = c
    THEN CHOOSE i \in 1..Len(s) : s[i] = c /\ \A j \in 1..(i - 1) : s[j] # c
    ELSE 0

\* REPLACE(X, c, ''): X without its occurrences of the character c.
RemoveChar(s, c) == SelectSeq(s, LAMBDA x : x # c)

\* The length of the longest prefix of s made of digits.
RECURSIVE DigitRun(_)
DigitRun(s) ==
    IF s # <<>> /\ IsDigit(s[1]) THEN 1 + DigitRun(Tail(s)) ELSE 0

\* The number a text of digits denotes (0 for the empty text).
RECURSIVE DecVal(_)
DecVal(s) ==
    IF s = <<>> THEN 0 ELSE 10 * DecVal(SubSeq(s, 1, Len(s) - 1)) + DigitVal(s[Len(s)])

RECURSIVE SkipSpaces(_)
SkipSpaces(s) == IF s # <<>> /\ s[1] = " " THEN SkipSpaces(Tail(s)) ELSE s

\* CastInt as a strict conversion: a text that is not digits throughout gives 0.
CastIntWholeText(s) == IF s # <<>> /\ AllDigits(s) THEN DecVal(s) ELSE 0

\* CAST(text AS INT): leading blanks are skipped, the longest prefix that is
\* an integer is converted, and a text with no such prefix gives 0.
CastInt(s) ==
    LET t == SkipSpaces(s) IN DecVal(SubSeq(t, 1, DigitRun(t)))

\* CAST(text AS FLOAT): as CastInt with an optional fraction; no numeric
\* prefix gives 0.0.
CastFloat(s) ==
    LET t  == SkipSpaces(s)
        n  == DigitRun(t)
        r  == SubSeq(t, n + 1, Len(t))
        f  == IF r # <<>> /\ r[1] = "." THEN DigitRun(Tail(r)) ELSE 0
        fr == IF f > 0 THEN SubSeq(r, 2, f + 1) ELSE <<>>
    IN  IF n = 0 /\ f = 0 THEN FromInt(0)
        ELSE Normalise([m |-> DecVal(SubSeq(t, 1, n)) * Pow10(f) + DecVal(fr), e |-> f])

\* X LIKE '%h %m': an "h" followed by a blank somewhere, and a final "m".
LikeHM(s) ==
    /\ s # <<>>
    /\ s[Len(s)] = "m"
    /\ \E i \in 1..(Len(s) - 2) : s[i] = "h" /\ s[i + 1] = " "

\* X LIKE '%h': a final "h".
LikeH(s) == s # <<>> /\ s[Len(s)] = "h"

\* DATE(text): the text when it reads YYYY-MM-DD with a month 01-12 and a
\* day 01-31, NULL otherwise.
SqlDate(s) ==
    IF /\ Len(s) = 10
       /\ s[5] = "-" /\ s[8] = "-"
       /\ AllDigits(SubSeq(s, 1, 4)) /\ AllDigits(SubSeq(s, 6, 7)) /\ AllDigits(SubSeq(s, 9, 10))
       /\ DecVal(SubSeq(s, 6, 7)) \in 1..12
       /\ DecVal(SubSeq(s, 9, 10)) \in 1..31
    THEN Some(s)
    ELSE NULL

\* ------------------------------------------------------------ cleaning SQL

\* CAST(REPLACE([Flight Price], ',', '') AS FLOAT)
Price_Float(price) ==
    IF IsNull(price) THEN NULL ELSE Some(CastFloat(RemoveChar(Val(price), ",")))

\* The CASE expression over [Duration Time].
Duration_Minutes(duration) ==
    IF IsNull(duration) THEN NULL
    ELSE LET s == Val(duration)
             h == Instr(s, "h")
         IN  IF LikeHM(s)
             THEN Some(CastInt(Substr(s, 1, h - 1)) * MinutesPerHour
                       + CastInt(Substr(s, h + 2, Len(s))))
             ELSE IF LikeH(s)
             THEN Some(CastInt(Substr(s, 1, h - 1)) * MinutesPerHour)
             ELSE Some(CastInt(RemoveChar(s, "m")))

\* DATE(SUBSTR([Date], 7, 4) || '-' || SUBSTR([Date], 4, 2) || '-' || SUBSTR([Date], 1, 2))
Travel_Date(date) ==
    IF IsNull(date) THEN NULL
    ELSE LET s == Val(date)
         IN  SqlDate(Substr(s, 7, 4) \o <<"-">> \o Substr(s, 4, 2) \o <<"-">> \o Substr(s, 1, 2))

\* SUBSTR([Departure Time], 1, 2)
Departure_Hour(time) ==
    IF IsNull(time) THEN NULL ELSE Some(Substr(Val(time), 1, 2))

\* ------------------------------------------------------------- data frames

\* pd.read_csv: an empty cell is read as NaN (NULL once in SQLite); any other
\* cell keeps its text.
ReadCsvCell(s) == IF s = <<>> THEN NULL ELSE Some(s)

\* One row of df_raw: the csv row's cells, under the RangeIndex label idx.
ReadCsvRow(row, i) ==
    [idx           |-> i,
     Company       |-> ReadCsvCell(row.Company),
     CabinClass    |-> ReadCsvCell(row.CabinClass),
     Origin        |-> ReadCsvCell(row.Origin),
     Destination   |-> ReadCsvCell(row.Destination),
     FlightPrice   |-> ReadCsvCell(row.FlightPrice),
     DurationTime  |-> ReadCsvCell(row.DurationTime),
     Date          |-> ReadCsvCell(row.Date),
     DepartureTime |-> ReadCsvCell(row.DepartureTime)]

read_csv(file) == [i \in 1..Len(file) |-> ReadCsvRow(file[i], i - 1)]

\* One row of query_cleaned's result: SELECT *, and the four derived columns.
CleanRow(r, i) ==
    [idx              |-> i,
     Company          |-> r.Company,
     CabinClass       |-> r.CabinClass,
     Origin           |-> r.Origin,
     Destination      |-> r.Destination,
     FlightPrice      |-> r.FlightPrice,
     DurationTime     |-> r.DurationTime,
     Date             |-> r.Date,
     DepartureTime    |-> r.DepartureTime,
     Price_Float      |-> Price_Float(r.FlightPrice),
     Duration_Minutes |-> Duration_Minutes(r.DurationTime),
     Travel_Date      |-> Travel_Date(r.Date),
     Departure_Hour   |-> Departure_Hour(r.DepartureTime)]

\* FromFlights with a WHERE clause that keeps the priced rows only.
FromFlightsWherePriced(rel) == SelectSeq(rel, LAMBDA r : ~IsNull(r.FlightPrice))

\* The rows query_cleaned selects FROM flights: there is no WHERE clause.
FromFlights(rel) == rel

\* pd.read_sql_query(query_cleaned, conn): one result row per selected row, in
\* table order, under a fresh RangeIndex.
query_cleaned(rel) ==
    LET t == FromFlights(rel) IN [i \in 1..Len(t) |-> CleanRow(t[i], i - 1)]

\* The raw columns of a data-frame row.
RawColumns(r) ==
    <<r.Company, r.CabinClass, r.Origin, r.Destination,
      r.FlightPrice, r.DurationTime, r.Date, r.DepartureTime>>

\* ------------------------------------------------------------------ inputs

Texts(chars, n) == UNION {[1..k -> chars] : k \in 0..n}

DurChars == {"0", "1", "h", "m", " ", "g"}

PriceChars == {"1", "5", ",", ".", "x"}

BaseRow ==
    [Company       |-> <<"a">>,
     CabinClass    |-> <<"e">>,
     Origin        |-> <<"d">>,
     Destination   |-> <<"b">>,
     FlightPrice   |-> <<"1", ",", "2", "0", "0">>,
     DurationTime  |-> <<"2", "h", " ", "3", "0", "m">>,
     Date          |-> <<"0", "5", "-", "0", "3", "-", "2", "0", "2", "4">>,
     DepartureTime |-> <<"0", "9", ":", "3", "0">>]

DateTexts ==
    {<<>>,
     <<"0", "5", "-", "0", "3", "-", "2", "0", "2", "4">>,
     <<"3", "1", "-", "1", "2", "-", "1", "9", "9", "9">>,
     <<"0", "5", "-", "1", "3", "-", "2", "0", "2", "4">>,
     <<"3", "2", "-", "0", "1", "-", "2", "0", "2", "4">>,
     <<"5", "-", "3", "-", "2", "0", "2", "4">>,
     <<"g", "a", "r", "b", "a", "g", "e">>}

TimeTexts ==
    {<<>>,
     <<"0", "9", ":", "3", "0">>,
     <<"2", "3", ":", "1", "5">>,
     <<"9", ":", "3", "0">>,
     <<" ", "9", ":", "3", "0">>,
     <<"9">>}

\* The rows the cleaning stage is exercised on: the base row with one of its
\* four parsed cells replaced.
ParserRows ==
    {[BaseRow EXCEPT !.DurationTime = d] : d \in Texts(DurChars, MaxDurLen)}
    \cup {[BaseRow EXCEPT !.FlightPrice = p] : p \in Texts(PriceChars, MaxPriceLen)}
    \cup {[BaseRow EXCEPT !.Date = d] : d \in DateTexts}
    \cup {[BaseRow EXCEPT !.DepartureTime = t] : t \in TimeTexts}

\* The rows the whole pipeline is exercised on.
PipelineRows ==
    {BaseRow,
     \* a fractional price, bare minutes
     [BaseRow EXCEPT !.Company = <<"b">>, !.Origin = <<"b">>, !.Destination = <<"d">>,
                     !.FlightPrice = <<"9", "9", "9", ".", "5">>,
                     !.DurationTime = <<"4", "5", "m">>,
                     !.DepartureTime = <<"2", "3", ":", "1", "5">>],
     \* no price, another cabin class
     [BaseRow EXCEPT !.CabinClass = <<"f">>, !.FlightPrice = <<>>,
                     !.DurationTime = <<"2", "h">>,
                     !.DepartureTime = <<"1", "4", ":", "0", "0">>],
     \* no duration, a text that is no date
     [BaseRow EXCEPT !.Company = <<"b">>, !.FlightPrice = <<"8", "0", "0">>,
                     !.DurationTime = <<>>, !.Date = <<"g", "a", "r", "b", "a", "g", "e">>,
                     !.DepartureTime = <<"0", "7", ":", "4", "5">>],
     \* a price and a duration that are no numbers
     [BaseRow EXCEPT !.Origin = <<"b">>, !.Destination = <<"d">>,
                     !.FlightPrice = <<"a", "b", "c">>,
                     !.DurationTime = <<"g", "a", "r", "b", "a", "g", "e">>],
     \* no airline
     [BaseRow EXCEPT !.Company = <<>>, !.FlightPrice = <<"2", ",", "5", "0", "0", ".", "2", "5">>],
     \* no departure time
     [BaseRow EXCEPT !.DepartureTime = <<>>]}

SeqsUpTo(S, n) == UNION {[1..k -> S] : k \in 0..n}

\* The rows of the busiest-airports data: origin i (the i-th letter) departs
\* 1 + (i + k) % 3 times, rows of one origin not adjacent.
TopCount(i, k) == 1 + ((i + k) % 3)

TopRows(n, k) ==
    LET Round(c) == SelectSeq([i \in 1..n |-> i], LAMBDA i : TopCount(i, k) >= c)
        order    == Round(1) \o Round(2) \o Round(3)
    IN  [j \in 1..Len(order) |-> [BaseRow EXCEPT !.Origin = <<Letters[order[j]]>>]]

MaxOrigins == Limit + ExtraOrigins

\* ------------------------------------------------------------------ states

Blank ==
    /\ pc = "start"
    /\ df_raw = <<>>
    /\ df_cleaned = <<>>
    /\ filt = <<>>
    /\ df_filtered = <<>>
    /\ chart_option = ""
    /\ df_viz = <<>>
    /\ errline = 0

Init == csv \in SeqsUpTo(PipelineRows, MaxRows) /\ Blank

InitClean == csv \in SeqsUpTo(ParserRows, 1) /\ Blank

InitTop == csv \in {TopRows(n, k) : n \in (Limit - 1)..MaxOrigins, k \in 0..2} /\ Blank

\* ----------------------------------------------------------------- actions

\* Lines 10-14: df_raw = pd.read_csv(DATA_PATH), stored as table flights.
LoadCsv ==
    /\ pc = "start"
    /\ df_raw' = read_csv(csv)
    /\ pc' = "loaded"
    /\ UNCHANGED <<csv, df_cleaned, filt, df_filtered, chart_option, df_viz, errline>>

\* Lines 16-32: df_cleaned = pd.read_sql_query(query_cleaned, conn).
Clean ==
    /\ pc = "loaded"
    /\ df_cleaned' = query_cleaned(df_raw)
    /\ pc' = "cleaned"
    /\ UNCHANGED <<csv, df_raw, filt, df_filtered, chart_option, df_viz, errline>>

NextClean == LoadCsv \/ Clean

SpecClean == InitClean /\ [][NextClean]_vars

\* ----------------------------------------------------------------- sidebar

Rows(rel) == {rel[i] : i \in 1..Len(rel)}

\* sorted(df_cleaned[column].dropna().unique()): the distinct non-null values
\* (their order only arranges the widget's options).
all_airlines == {Val(r.Company) : r \in {x \in Rows(df_cleaned) : ~IsNull(x.Company)}}

all_classes == {Val(r.CabinClass) : r \in {x \in Rows(df_cleaned) : ~IsNull(x.CabinClass)}}

all_origins == {Val(r.Origin) : r \in {x \in Rows(df_cleaned) : ~IsNull(x.Origin)}}

all_destinations ==
    {Val(r.Destination) : r \in {x \in Rows(df_cleaned) : ~IsNull(x.Destination)}}

\* Python str.strip() of blanks, and int(str).
RECURSIVE Strip(_)
Strip(s) ==
    IF s # <<>> /\ s[1] = " " THEN Strip(Tail(s))
    ELSE IF s # <<>> /\ s[Len(s)] = " " THEN Strip(SubSeq(s, 1, Len(s) - 1))
    ELSE s

PyIntOk(s) == Strip(s) # <<>> /\ AllDigits(Strip(s))

PyInt(s) == DecVal(Strip(s))

\* The non-null values of the three numeric columns.
HourTexts == {Val(r.Departure_Hour) : r \in {x \in Rows(df_cleaned) : ~IsNull(x.Departure_Hour)}}

Prices == {Val(r.Price_Float) : r \in {x \in Rows(df_cleaned) : ~IsNull(x.Price_Float)}}

Durations ==
    {Val(r.Duration_Minutes) : r \in {x \in Rows(df_cleaned) : ~IsNull(x.Duration_Minutes)}}

\* Series.min() / .max() over the non-null values of a column.
MinText(S) == CHOOSE x \in S : \A y \in S : ~TextLess(y, x)

MaxText(S) == CHOOSE x \in S : \A y \in S : ~TextLess(x, y)

MinReal(S) == CHOOSE x \in S : \A y \in S : RLeq(x, y)

MaxReal(S) == CHOOSE x \in S : \A y \in S : RLeq(y, x)

MinInt(S) == CHOOSE x \in S : \A y \in S : x <= y

MaxInt(S) == CHOOSE x \in S : \A y \in S : y <= x

min_hour == PyInt(MinText(HourTexts))

max_hour == PyInt(MaxText(HourTexts))

min_price == Trunc(MinReal(Prices))

max_price == Trunc(MaxReal(Prices))

min_duration == MinInt(Durations)

max_duration == MaxInt(Durations)

\* The line of lines 34-62 that raises, 0 when none does.  all_classes[0]
\* raises IndexError on an empty list; int() raises on the NaN that min() of
\* an empty or all-null column gives, and on a text that is no integer.  min()
\* of an object column holding both texts and None either raises TypeError or
\* skips the None, depending on the pandas build: skipna says which.
SidebarRaises(skipna) ==
    IF all_classes = {} THEN 43
    ELSE IF HourTexts = {} THEN 52
    ELSE IF ~skipna /\ \E r \in Rows(df_cleaned) : IsNull(r.Departure_Hour) THEN 52
    ELSE IF ~PyIntOk(MinText(HourTexts)) THEN 52
    ELSE IF ~PyIntOk(MaxText(HourTexts)) THEN 53
    ELSE IF Prices = {} THEN 56
    ELSE IF Durations = {} THEN 60
    ELSE 0

\* The Filter Specification of untouched widgets: every value selected, every
\* range from the column's min to its max.
DefaultFilter ==
    [airlines     |-> all_airlines,
     classes      |-> all_classes,
     origins      |-> all_origins,
     destinations |-> all_destinations,
     hour         |-> <<min_hour, max_hour>>,
     price        |-> <<min_price, max_price>>,
     duration     |-> <<min_duration, max_duration>>]

\* What the user can make of one widget: a multiselect emptied or with one
\* option removed, a range slider narrowed to one of its ends.
Selections(all) == {all, {}} \cup {all \ {v} : v \in all}

Ranges(lo, hi) == {<<lo, hi>>, <<lo, lo>>, <<hi, hi>>}

\* The Filter Specifications the sidebar returns: the default, or the default
\* with one widget changed.  The cabin-class multiselect exists only when
\* there is more than one class (lines 40-44); the hour slider spans 0-23.
FilterChoices ==
    LET D == DefaultFilter
    IN  {D}
        \cup {[D EXCEPT !.airlines = s] : s \in Selections(all_airlines)}
        \cup (IF Cardinality(all_classes) > 1
              THEN {[D EXCEPT !.classes = s] : s \in Selections(all_classes)}
              ELSE {})
        \cup {[D EXCEPT !.origins = s] : s \in Selections(all_origins)}
        \cup {[D EXCEPT !.destinations = s] : s \in Selections(all_destinations)}
        \cup {[D EXCEPT !.hour = r] :
                r \in Ranges(min_hour, max_hour) \cup {<<HourSliderMin, HourSliderMax>>}}
        \cup {[D EXCEPT !.price = r] : r \in Ranges(min_price, max_price)}
        \cup {[D EXCEPT !.duration = r] : r \in Ranges(min_duration, max_duration)}

\* Lines 34-62: the categorical domains, the numeric bounds and the widgets.
Sidebar ==
    /\ pc = "cleaned"
    /\ \E skipna \in BOOLEAN :
          IF SidebarRaises(skipna) # 0
          THEN /\ pc' = "error"
               /\ errline' = SidebarRaises(skipna)
               /\ UNCHANGED filt
          ELSE /\ pc' = "selected"
               /\ filt' \in FilterChoices
               /\ UNCHANGED errline
    /\ UNCHANGED <<csv, df_raw, df_cleaned, df_filtered, chart_option, df_viz>>

\* ------------------------------------------------------------------ filter

\* IsIn with an empty selection read as "no filter".
IsInOrUnfiltered(x, selected) == selected = {} \/ (~IsNull(x) /\ Val(x) \in selected)

\* Series.isin(selected): NaN is in no list of options.
IsIn(x, selected) == ~IsNull(x) /\ Val(x) \in selected

\* RealBetween with an exclusive upper bound.
RealBetweenExclusive(x, range) ==
    /\ ~IsNull(x)
    /\ RLeq(FromInt(range[1]), Val(x))
    /\ ~RLeq(FromInt(range[2]), Val(x))

\* lo <= x <= hi for a nullable real: a comparison with NaN is False.
RealBetween(x, range) ==
    /\ ~IsNull(x)
    /\ RLeq(FromInt(range[1]), Val(x))
    /\ RLeq(Val(x), FromInt(range[2]))

IntBetween(x, range) ==
    ~IsNull(x) /\ range[1] <= Val(x) /\ Val(x) <= range[2]

\* The boolean mask of lines 65-74, for one row.
Mask(r, f) ==
    /\ IsIn(r.Company, f.airlines)
    /\ IsIn(r.CabinClass, f.classes)
    /\ IsIn(r.Origin, f.origins)
    /\ IsIn(r.Destination, f.destinations)
    /\ PyInt(Val(r.Departure_Hour)) >= f.hour[1]
    /\ PyInt(Val(r.Departure_Hour)) <= f.hour[2]
    /\ RealBetween(r.Price_Float, f.price)
    /\ IntBetween(r.Duration_Minutes, f.duration)

\* df_cleaned[mask]: the rows the mask keeps, in order, under their labels.
BooleanIndex(rel, f) == SelectSeq(rel, LAMBDA r : Mask(r, f))

\* Departure_Hour.astype(int) raises when a value is None or no integer.
AstypeIntRaises(rel) ==
    \E r \in Rows(rel) : IsNull(r.Departure_Hour) \/ ~PyIntOk(Val(r.Departure_Hour))

\* Lines 64-77: df_filtered, stored as table flights_clean_filtered.
Filter ==
    /\ pc = "selected"
    /\ IF AstypeIntRaises(df_cleaned)
       THEN /\ pc' = "error"
            /\ errline' = 69
            /\ UNCHANGED df_filtered
       ELSE /\ pc' = "filtered"
            /\ df_filtered' = BooleanIndex(df_cleaned, filt)
            /\ UNCHANGED errline
    /\ UNCHANGED <<csv, df_raw, df_cleaned, filt, chart_option, df_viz>>

\* ------------------------------------------------------- aggregate catalog

\* The order of two nullable texts, and of two tuples of them: NULL sorts
\* before every text.
NullableLess(a, b) ==
    IF IsNull(b) THEN FALSE ELSE IF IsNull(a) THEN TRUE ELSE TextLess(Val(a), Val(b))

RECURSIVE KeyLess(_, _)
KeyLess(k, l) ==
    IF k = <<>> \/ l = <<>> THEN FALSE
    ELSE IF k[1] # l[1] THEN NullableLess(k[1], l[1])
    ELSE KeyLess(Tail(k), Tail(l))

\* X || Y: NULL when either side is.
Concat(a, b) == IF IsNull(a) \/ IsNull(b) THEN NULL ELSE Some(Val(a) \o Val(b))

Arrow == Some(<<" ", "→", " ">>)

Route(r) == Concat(Concat(r.Origin, Arrow), r.Destination)

Hour(r) == Concat(r.Departure_Hour, Some(<<":", "0", "0">>))

RAdd(a, b) ==
    LET e == Max(a.e, b.e)
    IN  Normalise([m |-> a.m * Pow10(e - a.e) + b.m * Pow10(e - b.e), e |-> e])

\* SUM over a column, halves first.
RECURSIVE RSum(_)
RSum(xs) ==
    IF xs = <<>> THEN FromInt(0)
    ELSE IF Len(xs) = 1 THEN xs[1]
    ELSE LET h == Len(xs) \div 2
         IN  RAdd(RSum(SubSeq(xs, 1, h)), RSum(SubSeq(xs, h + 1, Len(xs))))

\* ROUND(AVG(x), 2) over nullable reals: the NULLs are left out of the sum
\* and of the count, no value at all gives NULL, and the mean is rounded half
\* away from zero.
RoundAvg(xs) ==
    LET ys  == SelectSeq(xs, LAMBDA x : ~IsNull(x))
        sum == RSum([i \in 1..Len(ys) |-> Val(ys[i])])
        den == Len(ys) * Pow10(sum.e)
    IN  IF ys = <<>> THEN NULL
        ELSE Some(Normalise([m |-> (2 * sum.m * Pow10(RoundDigits) + den) \div (2 * den),
                             e |-> RoundDigits]))

NullableInt(x) == IF IsNull(x) THEN NULL ELSE Some(FromInt(Val(x)))

\* The order of two nullable reals: NULL sorts before every number.
RealLess(a, b) ==
    IF IsNull(b) THEN FALSE ELSE IF IsNull(a) THEN TRUE ELSE ~RLeq(Val(b), Val(a))

\* GROUP BY: one group per distinct key, with COUNT(*) and the two averages.
Group(rel, k, key) ==
    LET g == SelectSeq(rel, LAMBDA r : key[r] = k)
    IN  [key      |-> k,
         count    |-> Len(g),
         price    |-> RoundAvg([i \in 1..Len(g) |-> g[i].Price_Float]),
         duration |-> RoundAvg([i \in 1..Len(g) |-> NullableInt(g[i].Duration_Minutes)])]

GroupBy(rel, key) == {Group(rel, k, key) : k \in {key[r] : r \in Rows(rel)}}

\* ORDER BY: the rows of S, each after the rows that come before it.
OrderBy(S, before) ==
    [i \in 1..Cardinality(S) |->
        CHOOSE x \in S : Cardinality({y \in S : before[y, x]}) = i - 1]

\* SQL leaves the order of rows that tie (or of an unordered GROUP BY) open:
\* tie says whether they come out by ascending or by descending key.
TieLess(k, l, tie) == IF tie = "asc" THEN KeyLess(k, l) ELSE KeyLess(l, k)

ByKey(S, tie) == OrderBy(S, [a \in S, b \in S |-> TieLess(a.key, b.key, tie)])

ByCountDesc(S, tie) ==
    OrderBy(S, [a \in S, b \in S |->
        a.count > b.count \/ (a.count = b.count /\ TieLess(a.key, b.key, tie))])

ByPriceDesc(S, tie) ==
    OrderBy(S, [a \in S, b \in S |->
        RealLess(b.price, a.price) \/ (a.price = b.price /\ TieLess(a.key, b.key, tie))])

ByDurationDesc(S, tie) ==
    OrderBy(S, [a \in S, b \in S |->
        RealLess(b.duration, a.duration)
        \/ (a.duration = b.duration /\ TieLess(a.key, b.key, tie))])

\* ORDER BY Company, Count DESC over groups keyed by (Company, Cabin Class).
ByCompanyThenCountDesc(S, tie) ==
    OrderBy(S, [a \in S, b \in S |->
        \/ NullableLess(a.key[1], b.key[1])
        \/ /\ a.key[1] = b.key[1]
           /\ a.count > b.count \/ (a.count = b.count /\ TieLess(a.key, b.key, tie))])

\* LIMIT n
LimitRows(s, n) == SubSeq(s, 1, Min(n, Len(s)))

\* BusiestAirports with the LIMIT taken before the ORDER BY: the first 15
\* groups in key order, then sorted.
BusiestAirportsLimitFirst(rel, tie) ==
    LET first == LimitRows(ByKey(GroupBy(rel, [r \in Rows(rel) |-> <<r.Origin>>]), tie), Limit)
    IN  ByCountDesc({first[i] : i \in 1..Len(first)}, tie)

\* Lines 135-143: GROUP BY Origin ORDER BY Departure_Count DESC LIMIT 15.
BusiestAirports(rel, tie) ==
    LimitRows(ByCountDesc(GroupBy(rel, [r \in Rows(rel) |-> <<r.Origin>>]), tie), Limit)

Charts ==
    {"Average Price per Airline", "Flight Count per Route", "Average Duration per Route",
     "Cabin Class Share", "Flights per Airline", "Price Trends Over Time",
     "Departure Hour Popularity", "Cabin Class per Airline",
     "Price Distribution by Airline", "Busiest Airports (Top 15)",
     "Price vs Duration Scatter Plot"}

\* Lines 83-149: the result of the catalog query chosen, over the table
\* flights_clean_filtered.
queries(option, rel, tie) ==
    CASE option = "Average Price per Airline" ->
           LET g == ByPriceDesc(GroupBy(rel, [r \in Rows(rel) |-> <<r.Company>>]), tie)
           IN  [i \in 1..Len(g) |-> [Company |-> g[i].key[1], Average_Price |-> g[i].price]]
      [] option = "Flight Count per Route" ->
           LET g == ByCountDesc(GroupBy(rel, [r \in Rows(rel) |-> <<Route(r)>>]), tie)
           IN  [i \in 1..Len(g) |-> [Route |-> g[i].key[1], Total_Flights |-> g[i].count]]
      [] option = "Average Duration per Route" ->
           LET g == ByDurationDesc(GroupBy(rel, [r \in Rows(rel) |-> <<Route(r)>>]), tie)
           IN  [i \in 1..Len(g) |-> [Route |-> g[i].key[1], Avg_Duration_Min |-> g[i].duration]]
      [] option = "Cabin Class Share" ->
           LET g == ByKey(GroupBy(rel, [r \in Rows(rel) |-> <<r.CabinClass>>]), tie)
           IN  [i \in 1..Len(g) |-> [CabinClass |-> g[i].key[1], Count |-> g[i].count]]
      [] option = "Flights per Airline" ->
           LET g == ByCountDesc(GroupBy(rel, [r \in Rows(rel) |-> <<r.Company>>]), tie)
           IN  [i \in 1..Len(g) |-> [Company |-> g[i].key[1], Flights |-> g[i].count]]
      [] option = "Price Trends Over Time" ->
           LET g == ByKey(GroupBy(rel, [r \in Rows(rel) |-> <<r.Travel_Date>>]), "asc")
           IN  [i \in 1..Len(g) |-> [Travel_Date |-> g[i].key[1], Daily_Avg_Price |-> g[i].price]]
      [] option = "Departure Hour Popularity" ->
           LET g == ByCountDesc(GroupBy(rel, [r \in Rows(rel) |-> <<Hour(r)>>]), tie)
           IN  [i \in 1..Len(g) |-> [Hour |-> g[i].key[1], Flight_Count |-> g[i].count]]
      [] option = "Cabin Class per Airline" ->
           LET g == ByCompanyThenCountDesc(
                        GroupBy(rel, [r \in Rows(rel) |-> <<r.Company, r.CabinClass>>]), tie)
           IN  [i \in 1..Len(g) |->
                   [Company |-> g[i].key[1], CabinClass |-> g[i].key[2], Count |-> g[i].count]]
      [] option = "Price Distribution by Airline" ->
           [i \in 1..Len(rel) |-> [Company |-> rel[i].Company, Price_Float |-> rel[i].Price_Float]]
      [] option = "Busiest Airports (Top 15)" ->
           LET g == BusiestAirports(rel, tie)
           IN  [i \in 1..Len(g) |->
                   [Origin |-> g[i].key[1], Departure_Count |-> g[i].count,
                    Avg_Price |-> g[i].price]]
      [] option = "Price vs Duration Scatter Plot" ->
           [i \in 1..Len(rel) |->
               [Price_Float |-> rel[i].Price_Float,
                Duration_Minutes |-> rel[i].Duration_Minutes,
                Company |-> rel[i].Company]]

\* Lines 151-158: df_viz = run_query(queries[chart_option]).
run_query ==
    /\ pc = "filtered"
    /\ \E option \in Charts, tie \in {"asc", "desc"} :
          /\ chart_option' = option
          /\ df_viz' = queries(option, df_filtered, tie)
    /\ pc' = "done"
    /\ UNCHANGED <<csv, df_raw, df_cleaned, filt, df_filtered, errline>>

\* A widget interaction (or a reload) runs the script again from the top: the
\* widgets keep their values, every other variable is rebuilt.
Rerun ==
    /\ pc \in {"done", "error"}
    /\ pc' = "start"
    /\ df_raw' = <<>>
    /\ df_cleaned' = <<>>
    /\ df_filtered' = <<>>
    /\ chart_option' = ""
    /\ df_viz' = <<>>
    /\ errline' = 0
    /\ UNCHANGED <<csv, filt>>

Next == LoadCsv \/ Clean \/ Sidebar \/ Filter \/ run_query \/ Rerun

Spec == Init /\ [][Next]_vars

SpecTop == InitTop /\ [][Next]_vars

\* ------------------------------------------------------------------ claims

Cleaned == pc \in {"cleaned", "selected", "filtered", "done", "error"}

Filtered == pc \in {"filtered", "done"}

\* C1: the Cleaned Relation has exactly one record per Raw Record (and per
\* csv row), in the same order and with the raw columns unchanged, whatever
\* the price, duration, date and time cells hold.
C1_OneCleanedRecordPerRawRecord ==
    Cleaned =>
        /\ Len(df_raw) = Len(csv)
        /\ Len(df_cleaned) = Len(df_raw)
        /\ \A i \in 1..Len(df_cleaned) :
              /\ df_cleaned[i].idx = df_raw[i].idx
              /\ RawColumns(df_cleaned[i]) = RawColumns(df_raw[i])

C1_Witness ==
    /\ pc = "cleaned"
    /\ Len(df_cleaned) >= 2
    /\ IsNull(df_cleaned[1].Price_Float)
    /\ IsNull(df_cleaned[2].Duration_Minutes)
    /\ IsNull(df_cleaned[2].Travel_Date)

\* The selection holds every option and every range is the column's own.
IsDefault(f) == f = DefaultFilter

CategoricalsPresent(r) ==
    ~IsNull(r.Company) /\ ~IsNull(r.CabinClass) /\ ~IsNull(r.Origin) /\ ~IsNull(r.Destination)

\* C2: under the default Filter Specification the Filtered Relation holds
\* every Cleaned Record whose derived fields are all defined, the records
\* with the extreme prices, durations and hours included (stated for the
\* records whose four categorical cells are present).
C2_DefaultFilterKeepsEveryDefinedRecord ==
    (pc = "filtered" /\ IsDefault(filt)) =>
        \A r \in Rows(df_cleaned) :
            (/\ CategoricalsPresent(r)
             /\ ~IsNull(r.Price_Float)
             /\ ~IsNull(r.Duration_Minutes)
             /\ ~IsNull(r.Travel_Date)
             /\ ~IsNull(r.Departure_Hour))
            => r \in Rows(df_filtered)

\* The three accepted duration shapes, and a text of digits alone.
ShapeM(s) == Len(s) >= 2 /\ s[Len(s)] = "m" /\ AllDigits(SubSeq(s, 1, Len(s) - 1))

ShapeH(s) == Len(s) >= 2 /\ s[Len(s)] = "h" /\ AllDigits(SubSeq(s, 1, Len(s) - 1))

ShapeHM(s) ==
    \E i \in 2..(Len(s) - 3) :
        /\ s[i] = "h" /\ s[i + 1] = " " /\ s[Len(s)] = "m"
        /\ AllDigits(SubSeq(s, 1, i - 1))
        /\ AllDigits(SubSeq(s, i + 2, Len(s) - 1))

BareDigits(s) == s # <<>> /\ AllDigits(s)

\* C3: a duration text with none of the accepted shapes never yields 0 or
\* any other integer for duration_minutes (texts of digits alone, the bare
\* minutes of the parser's last branch, are left aside).
C3_UnrecognisedDurationIsNoInteger ==
    Cleaned =>
        \A i \in 1..Len(df_cleaned) :
            LET s == csv[i].DurationTime
            IN  (s # <<>> /\ ~ShapeHM(s) /\ ~ShapeH(s) /\ ~ShapeM(s) /\ ~BareDigits(s))
                => IsNull(df_cleaned[i].Duration_Minutes)

\* The number a text of digits denotes, read from the left.
RECURSIVE Horner(_, _)
Horner(acc, s) == IF s = <<>> THEN acc ELSE Horner(10 * acc + DigitVal(s[1]), Tail(s))

\* C4: "<h>h <m>m" parses to h*60 + m, "<h>h" to h*60 and "<m>m" to m, and
\* the result is an integer >= 0.
C4_DurationShapesParse ==
    Cleaned =>
        \A i \in 1..Len(df_cleaned) :
            LET s == csv[i].DurationTime
                v == df_cleaned[i].Duration_Minutes
                n == Len(s)
            IN  /\ ShapeM(s) => v = Some(Horner(0, SubSeq(s, 1, n - 1)))
                /\ ShapeH(s) => v = Some(60 * Horner(0, SubSeq(s, 1, n - 1)))
                /\ \A j \in 2..(n - 3) :
                      (/\ s[j] = "h" /\ s[j + 1] = " " /\ s[n] = "m"
                       /\ AllDigits(SubSeq(s, 1, j - 1))
                       /\ AllDigits(SubSeq(s, j + 2, n - 1)))
                      => v = Some(60 * Horner(0, SubSeq(s, 1, j - 1))
                                  + Horner(0, SubSeq(s, j + 2, n - 1)))
                /\ (ShapeM(s) \/ ShapeH(s) \/ ShapeHM(s)) => (~IsNull(v) /\ Val(v) \in Nat)

C4_Witness ==
    /\ pc = "cleaned"
    /\ Len(csv) = 1
    /\ csv[1].DurationTime = <<"1", "h", " ", "1", "m">>
    /\ df_cleaned[1].Duration_Minutes = Some(61)

\* A decimal numeral: digits with an optional fraction, or a fraction alone.
IsNumber(s) ==
    \E d \in 0..Len(s) :
        /\ AllDigits(SubSeq(s, 1, d))
        /\ \/ d = Len(s) /\ d > 0
           \/ /\ d < Len(s) /\ s[d + 1] = "."
              /\ AllDigits(SubSeq(s, d + 2, Len(s)))
              /\ Len(s) > 1

\* C5: a price text that, without its commas, is no number leaves the
\* derived price undefined (never a number such as 0), and the record stays
\* in the Cleaned Relation with its raw columns unchanged.
C5_NonNumericPriceIsUndefined ==
    Cleaned =>
        /\ Len(df_cleaned) = Len(csv)
        /\ \A i \in 1..Len(df_cleaned) :
              ~IsNumber(RemoveChar(csv[i].FlightPrice, ","))
              => /\ IsNull(df_cleaned[i].Price_Float)
                 /\ RawColumns(df_cleaned[i]) = RawColumns(df_raw[i])

\* C6: a record whose price or duration is undefined is still in the
\* Filtered Relation under the default filter, so the count aggregates count
\* it, while the averages leave it out (stated for the records that lack
\* nothing else).
C6_UndefinedMeasureKeepsTheRecord ==
    (pc = "filtered" /\ IsDefault(filt)) =>
        \A r \in Rows(df_cleaned) :
            (/\ CategoricalsPresent(r)
             /\ ~IsNull(r.Departure_Hour)
             /\ IsNull(r.Price_Float) \/ IsNull(r.Duration_Minutes))
            => r \in Rows(df_filtered)

EmptySelection(f) ==
    f.airlines = {} \/ f.classes = {} \/ f.origins = {} \/ f.destinations = {}

\* C7: with the selected set of one categorical attribute empty, the
\* Filtered Relation is empty and the catalog query run over it returns zero
\* rows.
C7_EmptySelectionGivesEmptyResults ==
    (Filtered /\ EmptySelection(filt)) =>
        /\ df_filtered = <<>>
        /\ pc = "done" => df_viz = <<>>

C7_Witness ==
    /\ pc = "done"
    /\ filt.origins = {}
    /\ filt.airlines # {}
    /\ Len(df_cleaned) = 2
    /\ chart_option = "Busiest Airports (Top 15)"
    /\ df_viz = <<>>

\* The Cleaned Relation is empty, or a numeric column has no defined value.
DegenerateDomain ==
    \/ df_cleaned = <<>>
    \/ \A r \in Rows(df_cleaned) : IsNull(r.Departure_Hour)
    \/ \A r \in Rows(df_cleaned) : IsNull(r.Price_Float)
    \/ \A r \in Rows(df_cleaned) : IsNull(r.Duration_Minutes)

\* C8: with an empty Cleaned Relation, or a numeric column undefined in
\* every record, deriving the categorical domains and the default bounds
\* does not raise.
C8_DegenerateDomainDoesNotRaise ==
    (Cleaned /\ DegenerateDomain) => pc # "error"

\* The Filter Specification's predicate on one record, from its definition.
Satisfies(r, f) ==
    /\ \A c \in {<<r.Company, f.airlines>>, <<r.CabinClass, f.classes>>,
                 <<r.Origin, f.origins>>, <<r.Destination, f.destinations>>} :
          c[1] # NULL /\ c[1][1] \in c[2]
    /\ Horner(0, Strip(r.Departure_Hour[1])) \in f.hour[1]..f.hour[2]
    /\ r.Price_Float # NULL
    /\ LET p == r.Price_Float[1]
       IN  f.price[1] * Pow10(p.e) <= p.m /\ p.m <= f.price[2] * Pow10(p.e)
    /\ r.Duration_Minutes # NULL
    /\ r.Duration_Minutes[1] \in f.duration[1]..f.duration[2]

\* n is the whole part of the price p.
WholePart(n, p) == n * Pow10(p.e) <= p.m /\ p.m < (n + 1) * Pow10(p.e)

\* Every end of the three ranges is an end of the full Cleaned Relation's
\* column (or of the hour slider), never of a narrower relation.
BoundsOfCleanedRelation ==
    LET prices == {r.Price_Float[1] : r \in {x \in Rows(df_cleaned) : x.Price_Float # NULL}}
        times  == {r.Duration_Minutes[1] :
                      r \in {x \in Rows(df_cleaned) : x.Duration_Minutes # NULL}}
        hours  == {Horner(0, Strip(r.Departure_Hour[1])) : r \in Rows(df_cleaned)}
    IN  /\ \A x \in {filt.price[1], filt.price[2]} :
              \E p \in prices :
                  /\ WholePart(x, p)
                  /\ \/ \A q \in prices : p.m * Pow10(q.e) <= q.m * Pow10(p.e)
                     \/ \A q \in prices : p.m * Pow10(q.e) >= q.m * Pow10(p.e)
        /\ \A x \in {filt.duration[1], filt.duration[2]} :
              /\ x \in times
              /\ (\A t \in times : t >= x) \/ (\A t \in times : t <= x)
        /\ \A x \in {filt.hour[1], filt.hour[2]} :
              \/ x \in hours /\ \A h \in hours : h >= x
              \/ x \in hours /\ \A h \in hours : h <= x
              \/ filt.hour = <<HourSliderMin, HourSliderMax>>

\* The Filtered Relation is the filter of the full Cleaned Relation by the
\* current Filter Specification: the records that satisfy it, all of them,
\* in their Cleaned Relation order.
FilteredByCurrentSpecification ==
    /\ \A i \in 1..Len(df_filtered) :
          /\ df_filtered[i].idx + 1 \in 1..Len(df_cleaned)
          /\ df_filtered[i] = df_cleaned[df_filtered[i].idx + 1]
          /\ \A j \in 1..(i - 1) : df_filtered[j].idx < df_filtered[i].idx
    /\ \A r \in Rows(df_cleaned) : r \in Rows(df_filtered) <=> Satisfies(r, filt)

OriginCount(o) == Cardinality({i \in 1..Len(df_filtered) : df_filtered[i].Origin = o})

FilteredOrigins == {r.Origin : r \in Rows(df_filtered)}

\* C10: Busiest Airports has min(15, distinct origins) rows, one per origin
\* with its departure count, in non-increasing count order, and no origin
\* left out has more departures than one that is included.
C10_BusiestAirportsSortsThenTruncates ==
    (pc = "done" /\ chart_option = "Busiest Airports (Top 15)") =>
        LET shown == {df_viz[i].Origin : i \in 1..Len(df_viz)}
        IN  /\ Len(df_viz) = Min(15, Cardinality(FilteredOrigins))
            /\ Cardinality(shown) = Len(df_viz)
            /\ shown \subseteq FilteredOrigins
            /\ \A i \in 1..Len(df_viz) :
                  /\ df_viz[i].Departure_Count = OriginCount(df_viz[i].Origin)
                  /\ \A j \in 1..(i - 1) :
                        df_viz[j].Departure_Count >= df_viz[i].Departure_Count
            /\ \A o \in FilteredOrigins \ shown :
                  \A i \in 1..Len(df_viz) : OriginCount(o) <= df_viz[i].Departure_Count

C10_Witness ==
    /\ pc = "done"
    /\ chart_option = "Busiest Airports (Top 15)"
    /\ Cardinality(FilteredOrigins) > 15
    /\ Len(df_viz) = 15
    /\ df_viz[1].Departure_Count > df_viz[15].Departure_Count
    /\ \E o \in FilteredOrigins : \A i \in 1..15 : df_viz[i].Origin # o

====
